---- MODULE Spec2Model ----
(***************************************************************************)
(* Model of prometheus-discord-alert (src/src/main.rs): an HTTP handler    *)
(* that parses an Alertmanager webhook body into an AlertGroup, groups its *)
(* alerts by status, renders one Discord envelope per status and POSTs the *)
(* envelopes one after the other to the URL held in DISCORD_WEBHOOK_URL.   *)
(*                                                                         *)
(* Conventions.  Option<T> is a sequence of length 0 (None) or 1 (Some).   *)
(* A map (HashMap<String,String>, a JSON object) is a function whose       *)
(* domain is its set of keys.  Strings are TLA+ strings and format! is     *)
(* string concatenation.                                                   *)
(***************************************************************************)
EXTENDS Integers, Sequences, FiniteSets, TLC

VARIABLES
    request,    \* the inbound JSON body (fixed while it is handled and re-sent)
    env,        \* DISCORD_WEBHOOK_URL in the process environment: None or Some(string)
    pc,         \* position of the handler: "received", "forward", "loop", "responded"
    group,      \* Option<AlertGroup>: the result of json_input
    hook_url,   \* Option<String>: the local hook_url of forward_alert
    env_read,   \* TRUE once std::env::var has been called for this request
    pending,    \* partitions (status, alerts) the for loop has not reached yet, in iteration order
    attempts,   \* the send() calls of this request: [content (envelope), outcome, src]
    response,   \* Option<Response>: the answer to the inbound request
    handled,    \* number of earlier deliveries of this same body that were answered
    prev_sent   \* envelopes the previous handling of this body passed to send()

vars == <<request, env, pc, group, hook_url, env_read, pending, attempts,
          response, handled, prev_sent>>

----------------------------------------------------------------------------
(* Bounds of the model *)

\* longest alerts array of an inbound body
MaxAlerts == 2

\* how many times Alertmanager delivers the same body (first delivery included)
MaxDeliveries == 2

----------------------------------------------------------------------------
(* Small helpers *)

None == <<>>
Some(x) == <<x>>
IsSome(o) == Len(o) = 1

\* HashMap::get(k).map_or(default, clone)
GetOr(m, k, default) == IF k \in DOMAIN m THEN m[k] ELSE default

\* "{}" of a usize: decimal digits
Digit(d) ==
    CASE d = 0 -> "0" [] d = 1 -> "1" [] d = 2 -> "2" [] d = 3 -> "3"
      [] d = 4 -> "4" [] d = 5 -> "5" [] d = 6 -> "6" [] d = 7 -> "7"
      [] d = 8 -> "8" [] d = 9 -> "9"

RECURSIVE Display(_)
Display(n) == IF n < 10 THEN Digit(n) ELSE Display(n \div 10) \o Digit(n % 10)

----------------------------------------------------------------------------
(* Payload model: enum Status, Annotations, Alert, AlertGroup and their    *)
(* serde deserialization from the JSON body.                               *)

Firing == "Status::Firing"
Resolved == "Status::Resolved"
Status == {Firing, Resolved}

\* Variant of ParseStatus: an unrecognised token falls back to a variant
\* (as #[serde(other)] would) instead of failing
ParseStatus_lenient(token) ==
    CASE token = "resolved" -> Some(Resolved)
      [] OTHER -> Some(Firing)

\* #[serde(rename_all = "lowercase")] on Status: only the two lowercase tokens parse
ParseStatus(token) ==
    CASE token = "firing" -> Some(Firing)
      [] token = "resolved" -> Some(Resolved)
      [] OTHER -> None

\* {:?} of a Status (derive(Debug)): the variant's name
DebugFmt(status) ==
    CASE status = Firing -> "Firing"
      [] status = Resolved -> "Resolved"

\* struct Annotations: summary is required, description optional
ParseAnnotations(obj) ==
    IF "summary" \notin DOMAIN obj THEN None
    ELSE Some([summary |-> obj["summary"],
               description |-> IF "description" \in DOMAIN obj
                               THEN Some(obj["description"]) ELSE None])

\* An Option<Annotations> field of a JSON object: a missing key is None,
\* a present object must itself deserialize.  Result: Option<Option<Annotations>>.
ParseOptAnnotations(obj, key) ==
    IF key \notin DOMAIN obj THEN Some(None)
    ELSE IF IsSome(ParseAnnotations(obj[key]))
         THEN Some(ParseAnnotations(obj[key]))
         ELSE None

\* struct Alert (camelCase): status, labels, fingerprint required
ParseAlert(obj) ==
    IF \/ {"status", "labels", "fingerprint"} \ DOMAIN obj # {}
       \/ ~IsSome(ParseStatus(obj["status"]))
       \/ ~IsSome(ParseOptAnnotations(obj, "annotations"))
    THEN None
    ELSE Some([status |-> ParseStatus(obj["status"])[1],
               labels |-> obj["labels"],
               annotations |-> ParseOptAnnotations(obj, "annotations")[1],
               fingerprint |-> obj["fingerprint"]])

\* i32 from a JSON value [type, text]: only a JSON number deserializes
ParseI32(v) ==
    IF v.type # "number" THEN None
    ELSE CASE v.text = "0" -> Some(0)
           [] v.text = "1" -> Some(1)
           [] OTHER -> None

\* struct AlertGroup (camelCase): every field but commonAnnotations is required,
\* and every element of alerts must deserialize.
ParseGroup(doc) ==
    IF \/ {"version", "status", "alerts", "groupLabels", "commonLabels",
           "truncatedAlerts"} \ DOMAIN doc # {}
       \/ ~IsSome(ParseStatus(doc["status"]))
       \/ \E i \in 1..Len(doc["alerts"]) : ~IsSome(ParseAlert(doc["alerts"][i]))
       \/ ~IsSome(ParseOptAnnotations(doc, "commonAnnotations"))
       \/ ~IsSome(ParseI32(doc["truncatedAlerts"]))
    THEN None
    ELSE Some([version |-> doc["version"],
               status |-> ParseStatus(doc["status"])[1],
               alerts |-> [i \in 1..Len(doc["alerts"]) |-> ParseAlert(doc["alerts"][i])[1]],
               group_labels |-> doc["groupLabels"],
               common_labels |-> doc["commonLabels"],
               common_annotations |-> ParseOptAnnotations(doc, "commonAnnotations")[1],
               truncated_alerts |-> ParseI32(doc["truncatedAlerts"])[1]])

\* rouille::input::json_input followed by try_or_400!
JsonInput(body) == ParseGroup(body)

----------------------------------------------------------------------------
(* Outbound message model: enum Color, DiscordEmbedField, DiscordEmbed,    *)
(* DiscordContent.                                                         *)

Red == 10038562
Green == 3066993
Grey == 9807270

ColorOf(status) ==
    CASE status = Firing -> Red
      [] status = Resolved -> Green

----------------------------------------------------------------------------
(* Grouping and rendering: the body of forward_alert                       *)

\* group.common_labels.get("alertname").map_or("unnamed", clone)
AlertName(common_labels) == GetOr(common_labels, "alertname", "unnamed")

\* group.common_annotations.is_some()
HasSummary(common_annotations) == IsSome(common_annotations)

\* group.common_annotations.map_or("no summary", |a| a.summary)
AlertSummary(common_annotations) ==
    IF IsSome(common_annotations) THEN common_annotations[1].summary
    ELSE "no summary"

\* Variant of Push: list.insert(0, alert)
Push_front(list, alert) == <<alert>> \o list

\* list.push(alert)
Push(list, alert) == Append(list, alert)

\* Variant of EntryPush: alert_by_status.insert(alert.status, vec![alert]),
\* which replaces the list already stored for the status
EntryPush_overwrite(map, alert) ==
    [s \in DOMAIN map \cup {alert.status} |->
        IF s = alert.status THEN <<alert>> ELSE map[s]]

\* alert_by_status.entry(alert.status).or_insert(Vec::new()), then push
EntryPush(map, alert) ==
    [s \in DOMAIN map \cup {alert.status} |->
        IF s = alert.status
        THEN Push(IF s \in DOMAIN map THEN map[s] ELSE <<>>, alert)
        ELSE map[s]]

\* for alert in group.alerts { ... } starting from HashMap::new()
RECURSIVE GroupInto(_, _)
GroupInto(map, alerts) ==
    IF alerts = <<>> THEN map
    ELSE GroupInto(EntryPush(map, Head(alerts)), Tail(alerts))

\* Variant of GroupByStatus: the map is a static that is never cleared, so a
\* later request starts from the entries an earlier one left
GroupByStatus_static(alerts) ==
    IF handled = 0 THEN GroupInto(<<>>, alerts)
    ELSE GroupInto(GroupInto(<<>>, alerts), alerts)

GroupByStatus(alerts) == GroupInto(<<>>, alerts)

\* The orders in which `for (status, alerts) in alert_by_status` can visit the
\* entries: a std HashMap with a fresh RandomState promises no order.
IterOrders(map) ==
    {o \in [1..Cardinality(DOMAIN map) -> DOMAIN map] :
        \A i, j \in DOMAIN o : i # j => o[i] # o[j]}

\* Variant of Instance: only "unknown" gives way to exported_instance
Instance_noLocalhost(labels) ==
    LET instance == GetOr(labels, "instance", "unknown")
    IN  IF instance = "unknown" /\ "exported_instance" \in DOMAIN labels
        THEN labels["exported_instance"]
        ELSE instance

\* the instance shown for one alert
Instance(labels) ==
    LET instance == GetOr(labels, "instance", "unknown")
    IN  IF (instance = "unknown" \/ instance = "localhost")
           /\ "exported_instance" \in DOMAIN labels
        THEN labels["exported_instance"]
        ELSE instance

\* format!("[{:?}]: {} on {}", status, alert_name, instance)
FieldName(status, labels) ==
    "[" \o DebugFmt(status) \o "]: " \o GetOr(labels, "alertname", "unknown")
        \o " on " \o Instance(labels)

\* str::to_uppercase on the severities of the model
ToUppercase(s) ==
    CASE s = "critical" -> "CRITICAL"
      [] s = "warning" -> "WARNING"

\* alert.annotations.map_or("-", |a| a.description.unwrap_or(a.summary))
SummaryText(annotations) ==
    IF ~IsSome(annotations) THEN "-"
    ELSE IF IsSome(annotations[1].description) THEN annotations[1].description[1]
         ELSE annotations[1].summary

\* format!("{} {} {}", severity, job, summary)
FieldValue(alert) ==
    (IF "severity" \in DOMAIN alert.labels
     THEN ToUppercase(alert.labels["severity"]) ELSE "INFO")
    \o " " \o GetOr(alert.labels, "job", "-")
    \o " " \o SummaryText(alert.annotations)

RenderField(status, alert) ==
    [name |-> FieldName(status, alert.labels), value |-> FieldValue(alert)]

\* Variant of Title: the count is taken from the whole group
Title_total(status, alerts, alert_name) ==
    "[" \o DebugFmt(status) \o ":" \o Display(Len(group[1].alerts)) \o "] " \o alert_name

\* format!("[{:?}:{}] {}", status, alerts.len(), alert_name)
Title(status, alerts, alert_name) ==
    "[" \o DebugFmt(status) \o ":" \o Display(Len(alerts)) \o "] " \o alert_name

\* Variant of Content: the summary (or its "no summary" default) is always sent
Content_always(has_summary, alert_summary) == Some(alert_summary)

\* if has_summary { Some(alert_summary.clone()) } else { None }
Content(has_summary, alert_summary) ==
    IF has_summary THEN Some(alert_summary) ELSE None

\* for alert in alerts { ... embed.fields.push(field) }
EmbedFields(status, alerts) ==
    [i \in 1..Len(alerts) |-> RenderField(status, alerts[i])]

\* one iteration of the outer loop up to `DiscordContent { content, embeds }`
RenderEnvelope(status, alerts, g) ==
    [content |-> Content(HasSummary(g.common_annotations),
                         AlertSummary(g.common_annotations)),
     embeds |-> << [title |-> Title(status, alerts, AlertName(g.common_labels)),
                    description |-> AlertSummary(g.common_annotations),
                    color |-> ColorOf(status),
                    fields |-> EmbedFields(status, alerts)] >>]

----------------------------------------------------------------------------
(* Delivery: reqwest_client.post(&hook_url).json(&content).send()?         *)

WebhookUrl == "https://discord.test/api/webhooks/1/t"

\* str::trim on the environment values of the model
Trim(s) ==
    CASE s = " " -> ""
      [] s = WebhookUrl \o "\n" -> WebhookUrl

\* Url::parse inside RequestBuilder: an empty string is no absolute URL
ValidUrl(url) ==
    CASE url = "" -> FALSE
      [] url = WebhookUrl -> TRUE

\* What one send() can come back with.  With an unparsable URL the builder
\* holds an error and send() returns it without any network activity;
\* otherwise the POST goes out and either the connection fails or the
\* destination answers with some status.
SendOutcomes(url) ==
    IF ValidUrl(url) THEN {"status_2xx", "status_non_2xx", "transport_error"}
    ELSE {"builder_error"}

\* send() is Err only for builder and transport errors: a Response of any
\* status is Ok (error_for_status is not called).
SendIsErr(outcome) == outcome \in {"builder_error", "transport_error"}

\* Variant of Try: the result of send() is dropped (let _ = ...send();)
Try_ignored(outcome) == FALSE

\* the `?` after send(): an Err leaves forward_alert at once
Try(outcome) == SendIsErr(outcome)

\* the POST left the process
Issued(outcome) == outcome # "builder_error"

\* try_or_400!: HTTP 400 carrying the error
Response400(cause) == [status |-> 400, body |-> cause]

\* Response::text("OK")
ResponseOk == [status |-> 200, body |-> "OK"]

----------------------------------------------------------------------------
(* The inbound bodies and environments the model draws from                *)

Restrict(obj, keys) == [k \in DOMAIN obj \cap keys |-> obj[k]]
Without(obj, keys) == [k \in DOMAIN obj \ keys |-> obj[k]]
Put(obj, key, val) == [k \in DOMAIN obj \cup {key} |-> IF k = key THEN val ELSE obj[k]]

\* The alerts a body is made of: each combination of the instance and
\* exported_instance labels (absent, "unknown", "localhost", another host;
\* with and without exported_instance) occurs once, the two status tokens
\* alternate, and the other labels and the annotations vary over them.
AnnotatedAlerts ==
    {[status |-> "firing",
      labels |-> [instance |-> "unknown", severity |-> "warning"],
      annotations |-> [summary |-> "S"]],
     [status |-> "resolved",
      labels |-> [instance |-> "host-7", alertname |-> "DiskFull",
                  severity |-> "critical", job |-> "node"],
      annotations |-> [summary |-> "S", description |-> "D"]]}

AlertShapes ==
    AnnotatedAlerts \cup
    {[status |-> "firing", labels |-> Restrict([job |-> "node"], {})],
     [status |-> "resolved", labels |-> [exported_instance |-> "db-1"]],
     [status |-> "resolved", labels |-> [instance |-> "unknown", exported_instance |-> "db-1"]],
     [status |-> "resolved", labels |-> [instance |-> "localhost"]],
     [status |-> "firing",
      labels |-> [instance |-> "localhost", exported_instance |-> "db-1",
                  alertname |-> "DiskFull"]],
     [status |-> "firing", labels |-> [instance |-> "host-7", exported_instance |-> "db-1"]]}

\* Alertmanager gives every alert of a group its own fingerprint
Fingerprint(i) == "fp" \o Display(i)

AlertSeqs(shapes) ==
    UNION {{[i \in 1..n |-> Put(sh[i], "fingerprint", Fingerprint(i))] :
                sh \in [1..n -> shapes]} : n \in 0..MaxAlerts}

CommonLabelSets == {Restrict([alertname |-> "DiskFull"], ks) : ks \in SUBSET {"alertname"}}

\* a body Alertmanager sends: the group is firing while one of its alerts is
GroupDoc(alerts, labels) ==
    [version |-> "4",
     status |-> IF \E i \in 1..Len(alerts) : alerts[i]["status"] = "firing"
                THEN "firing" ELSE "resolved",
     alerts |-> alerts,
     groupLabels |-> labels,
     commonLabels |-> labels,
     commonAnnotations |-> [summary |-> "disk is full"],
     truncatedAlerts |-> [type |-> "number", text |-> "0"]]

GoodDocsOver(shapes) ==
    UNION {{GroupDoc(a, l), Without(GroupDoc(a, l), {"commonAnnotations"})} :
                a \in AlertSeqs(shapes), l \in CommonLabelSets}

GoodDocs == GoodDocsOver(AlertShapes)

\* ways a body fails the schema
Defective(doc) ==
    {Without(doc, {k}) : k \in {"version", "status", "alerts", "groupLabels",
                                "commonLabels", "truncatedAlerts"}}
    \cup {Put(doc, "status", t) : t \in {"unknown", "Firing"}}
    \cup {Put(doc, "truncatedAlerts", [type |-> "string", text |-> "0"])}
    \cup {Put(doc, "commonAnnotations", [description |-> "D"])}
    \cup {Put(doc, "alerts", Put(doc["alerts"], i, Without(doc["alerts"][i], {k}))) :
            i \in 1..Len(doc["alerts"]), k \in {"status", "labels", "fingerprint"}}
    \cup {Put(doc, "alerts", Put(doc["alerts"], i, Put(doc["alerts"][i], "status", "unknown"))) :
            i \in 1..Len(doc["alerts"])}
    \cup {Put(doc, "alerts", Put(doc["alerts"], i,
                                 Put(doc["alerts"][i], "annotations", [description |-> "D"]))) :
            i \in 1..Len(doc["alerts"])}

BadDocs == UNION {Defective(doc) : doc \in GoodDocsOver(AnnotatedAlerts)}

Bodies == GoodDocs \cup BadDocs

\* DISCORD_WEBHOOK_URL: unset, blank, or the webhook URL as a shell leaves it
EnvValues == {None, Some(" "), Some(WebhookUrl \o "\n")}

----------------------------------------------------------------------------
(* The handler as a state machine                                          *)

Init ==
    /\ request \in Bodies
    /\ env \in EnvValues
    /\ pc = "received"
    /\ group = None
    /\ hook_url = None
    /\ env_read = FALSE
    /\ pending = <<>>
    /\ attempts = <<>>
    /\ response = None
    /\ handled = 0
    /\ prev_sent = <<>>

\* main, lines 76-77: json_input under try_or_400!
ParseRequest ==
    /\ pc = "received"
    /\ group' = JsonInput(request)
    /\ IF IsSome(JsonInput(request))
       THEN pc' = "forward" /\ response' = response
       ELSE pc' = "responded" /\ response' = Some(Response400("json"))
    /\ UNCHANGED <<request, env, hook_url, env_read, pending, attempts, handled, prev_sent>>

\* forward_alert, lines 85-106: read the environment, group the alerts by
\* status and enter the loop over the map
ForwardAlert ==
    /\ pc = "forward"
    /\ env_read' = TRUE
    /\ IF ~IsSome(env)
       THEN /\ pc' = "responded"
            /\ response' = Some(Response400("env"))
            /\ UNCHANGED <<hook_url, pending>>
       ELSE /\ hook_url' = Some(Trim(env[1]))
            /\ \E order \in IterOrders(GroupByStatus(group[1].alerts)) :
                  pending' = [i \in DOMAIN order |->
                                [status |-> order[i],
                                 alerts |-> GroupByStatus(group[1].alerts)[order[i]]]]
            /\ pc' = "loop"
            /\ response' = response
    /\ UNCHANGED <<request, env, group, attempts, handled, prev_sent>>

\* one iteration of the loop, lines 106-170: render the envelope of the next
\* partition and send it; an Err of send() ends the request with HTTP 400
PostEnvelope ==
    /\ pc = "loop"
    /\ pending # <<>>
    /\ \E outcome \in SendOutcomes(hook_url[1]) :
          /\ attempts' = Append(attempts,
                [content |-> RenderEnvelope(Head(pending).status, Head(pending).alerts, group[1]),
                 outcome |-> outcome,
                 src |-> [i \in 1..Len(Head(pending).alerts) |->
                             Head(pending).alerts[i].fingerprint]])
          /\ IF Try(outcome)
             THEN pc' = "responded" /\ response' = Some(Response400("send"))
             ELSE pc' = "loop" /\ response' = response
    /\ pending' = Tail(pending)
    /\ UNCHANGED <<request, env, group, hook_url, env_read, handled, prev_sent>>

\* lines 172 and 80: the loop is over, Ok(()) and Response::text("OK")
RespondOk ==
    /\ pc = "loop"
    /\ pending = <<>>
    /\ pc' = "responded"
    /\ response' = Some(ResponseOk)
    /\ UNCHANGED <<request, env, group, hook_url, env_read, pending, attempts,
                   handled, prev_sent>>

\* Alertmanager delivers the same body again (repeat interval, or a retry
\* after an error answer); the handler starts afresh, nothing is kept
Redeliver ==
    /\ pc = "responded"
    /\ handled + 1 < MaxDeliveries
    /\ handled' = handled + 1
    /\ prev_sent' = [i \in 1..Len(attempts) |-> attempts[i].content]
    /\ pc' = "received"
    /\ group' = None
    /\ hook_url' = None
    /\ env_read' = FALSE
    /\ pending' = <<>>
    /\ attempts' = <<>>
    /\ response' = None
    /\ UNCHANGED <<request, env>>

Next == ParseRequest \/ ForwardAlert \/ PostEnvelope \/ RespondOk \/ Redeliver

Spec == Init /\ [][Next]_vars

----------------------------------------------------------------------------
(* Vocabulary of the properties                                            *)

Responded == pc = "responded"

\* the envelopes passed to send() so far in this handling
Envelopes == [i \in 1..Len(attempts) |-> attempts[i].content]

\* the set of elements of a sequence
Range(s) == {s[i] : i \in 1..Len(s)}

\* a POST that did not succeed: no connection, or a non-success status
PostFailed(outcome) == outcome \in {"transport_error", "status_non_2xx"}

\* the environment value is absent or empty after trimming
UrlMissing == ~IsSome(env) \/ Trim(env[1]) = ""

\* the request parsed, the loop was entered and has visited every partition
AllProduced ==
    /\ IsSome(group)
    /\ IsSome(hook_url)
    /\ pc \in {"loop", "responded"}
    /\ pending = <<>>

InputAlerts == group[1].alerts

StatusesPresent == {InputAlerts[i].status : i \in 1..Len(InputAlerts)}

\* position in the input of the alert with fingerprint fp
PosOf(fp) == CHOOSE i \in 1..Len(InputAlerts) : InputAlerts[i].fingerprint = fp

\* the (envelope, field) places of this handling
FieldPlaces ==
    UNION {{<<e, j>> : j \in 1..Len(attempts[e].content.embeds[1].fields)} :
                e \in 1..Len(attempts)}

----------------------------------------------------------------------------
(* Delivery and error handling                                             *)

C2_FailedPostIs400 ==
    (Responded /\ \E i \in 1..Len(attempts) : PostFailed(attempts[i].outcome))
        => response[1].status = 400

\* C3: a well-formed request with the destination URL absent or empty after
\* trimming is answered with HTTP 400 and issues no POST
C3_MissingUrlIs400 ==
    (Responded /\ IsSome(group) /\ UrlMissing)
        => /\ response[1].status = 400
           /\ \A i \in 1..Len(attempts) : ~Issued(attempts[i].outcome)

\* C6: a body that fails the schema is answered with HTTP 400 and nothing
\* else happens: no AlertGroup, no read of the environment, no send()
C6_MalformedIs400 ==
    (request \in BadDocs /\ pc # "received")
        => /\ Responded
           /\ response = Some(Response400("json"))
           /\ group = None
           /\ ~env_read
           /\ attempts = <<>>
           /\ pending = <<>>

\* C6 witness: a body with an alert of status "unknown" has been answered
C6_Witness ==
    /\ Responded
    /\ request \in BadDocs
    /\ "alerts" \in DOMAIN request
    /\ \E i \in 1..Len(request["alerts"]) :
          /\ "status" \in DOMAIN request["alerts"][i]
          /\ request["alerts"][i]["status"] = "unknown"

----------------------------------------------------------------------------
(* Rendering                                                               *)

\* this handling and the previous one of the same body each produced every
\* envelope of the group
BothProducedAll ==
    /\ handled >= 1
    /\ AllProduced
    /\ Len(attempts) = Cardinality(StatusesPresent)
    /\ Len(prev_sent) = Cardinality(StatusesPresent)

\* C4: handling the same AlertGroup twice produces the same sequence of
\* envelopes: same envelopes, same contents, same order
C4_SameSequence == BothProducedAll => Envelopes = prev_sent

\* C4 as amended: handling the same AlertGroup twice produces the same
\* envelopes with the same contents, one per status; only the order in which
\* the two statuses are emitted may differ
C4_SameEnvelopes ==
    BothProducedAll =>
        /\ Range(Envelopes) = Range(prev_sent)
        /\ Cardinality(Range(Envelopes)) = Len(attempts)

\* C4 witness: a group with both statuses has been handled twice to the end
C4_Witness == BothProducedAll /\ Len(attempts) = 2 /\ Responded

\* C5: once every envelope is produced, each input alert is the source of
\* exactly one field, that field is the rendering of the alert and sits in
\* the envelope of the alert's status, and the fields number as the alerts
C5_PartitionCover ==
    AllProduced =>
        /\ \A e \in 1..Len(attempts) :
              Len(attempts[e].src) = Len(attempts[e].content.embeds[1].fields)
        /\ \A i \in 1..Len(InputAlerts) :
              /\ Cardinality({p \in FieldPlaces :
                    attempts[p[1]].src[p[2]] = InputAlerts[i].fingerprint}) = 1
              /\ \A p \in FieldPlaces :
                    attempts[p[1]].src[p[2]] = InputAlerts[i].fingerprint =>
                        /\ attempts[p[1]].content.embeds[1].color
                               = ColorOf(InputAlerts[i].status)
                        /\ attempts[p[1]].content.embeds[1].fields[p[2]]
                               = RenderField(InputAlerts[i].status, InputAlerts[i])
        /\ Cardinality(FieldPlaces) = Len(InputAlerts)

\* C5 witness: a group of two alerts of different status, both envelopes produced
C5_Witness ==
    /\ AllProduced
    /\ Len(InputAlerts) = 2
    /\ Len(attempts) = 2

\* C7: the envelopes produced number as the distinct statuses of the alerts
\* (none for an empty group), each envelope holds one message, and the count
\* in the message's title is the number of its fields
C7_CountAndTitle ==
    /\ AllProduced => Len(attempts) = Cardinality(StatusesPresent)
    /\ \A e \in 1..Len(attempts) :
          LET msgs == attempts[e].content.embeds
          IN  /\ Len(msgs) = 1
              /\ \E st \in Status :
                    /\ msgs[1].color = ColorOf(st)
                    /\ msgs[1].title =
                          "[" \o DebugFmt(st) \o ":" \o Display(Len(msgs[1].fields))
                              \o "] " \o GetOr(group[1].common_labels, "alertname", "unnamed")

\* C7 witness: a group of two alerts of one status gave one envelope titled with 2
C7_Witness ==
    /\ AllProduced
    /\ Len(InputAlerts) = 2
    /\ Len(attempts) = 1
    /\ Len(attempts[1].content.embeds[1].fields) = 2
    /\ Responded

\* C7 witness for the empty group: answered OK without a send()
C7_EmptyWitness ==
    /\ AllProduced
    /\ Responded
    /\ InputAlerts = <<>>
    /\ attempts = <<>>
    /\ response = Some(ResponseOk)

\* C8: in each envelope the fields follow the input order of their alerts
C8_FieldOrder ==
    \A e \in 1..Len(attempts) :
        LET fields == attempts[e].content.embeds[1].fields
            src == attempts[e].src
        IN  /\ Len(src) = Len(fields)
            /\ \A j \in 1..Len(fields) :
                  /\ \E i \in 1..Len(InputAlerts) : InputAlerts[i].fingerprint = src[j]
                  /\ fields[j] = RenderField(InputAlerts[PosOf(src[j])].status,
                                             InputAlerts[PosOf(src[j])])
            /\ \A j, k \in 1..Len(fields) : j < k => PosOf(src[j]) < PosOf(src[k])

\* C8 witness: an envelope with two fields
C8_Witness ==
    \E e \in 1..Len(attempts) : Len(attempts[e].content.embeds[1].fields) = 2

\* C9: every envelope has a content exactly when the group has
\* common_annotations, the content is then their summary, and the description
\* of the message is that summary, or "no summary" without common_annotations
C9_ContentAndDescription ==
    \A e \in 1..Len(attempts) :
        LET envelope == attempts[e].content
            ca == group[1].common_annotations
        IN  /\ IsSome(envelope.content) <=> IsSome(ca)
            /\ IsSome(ca) =>
                  /\ envelope.content = Some(ca[1].summary)
                  /\ envelope.embeds[1].description = ca[1].summary
            /\ ~IsSome(ca) => envelope.embeds[1].description = "no summary"

\* C9 witness: two envelopes of a group without common_annotations
C9_Witness ==
    /\ Len(attempts) = 2
    /\ ~IsSome(group[1].common_annotations)

\* C9 witness: two envelopes of a group with common_annotations
C9_PresentWitness ==
    /\ Len(attempts) = 2
    /\ IsSome(group[1].common_annotations)

\* the instance the claim expects for a label map
ExpectedInstance(labels) ==
    IF /\ "exported_instance" \in DOMAIN labels
       /\ \/ "instance" \notin DOMAIN labels
          \/ labels["instance"] = "unknown"
          \/ labels["instance"] = "localhost"
    THEN labels["exported_instance"]
    ELSE IF "instance" \in DOMAIN labels THEN labels["instance"] ELSE "unknown"

\* C10: the instance in a field name is exported_instance exactly when that
\* label is present and instance is absent, "unknown" or "localhost";
\* otherwise it is instance, or "unknown" when instance is absent
C10_InstanceShown ==
    \A p \in FieldPlaces :
        LET alert == InputAlerts[PosOf(attempts[p[1]].src[p[2]])]
        IN  attempts[p[1]].content.embeds[1].fields[p[2]].name =
                "[" \o DebugFmt(alert.status) \o "]: "
                    \o GetOr(alert.labels, "alertname", "unknown")
                    \o " on " \o ExpectedInstance(alert.labels)

\* C10 witness: a field rendered from instance "localhost" with exported_instance
C10_Witness ==
    \E p \in FieldPlaces :
        LET alert == InputAlerts[PosOf(attempts[p[1]].src[p[2]])]
        IN  /\ "instance" \in DOMAIN alert.labels
            /\ alert.labels["instance"] = "localhost"
            /\ "exported_instance" \in DOMAIN alert.labels

\* C10 witness: a field rendered from instance "localhost" alone
C10_LocalhostWitness ==
    \E p \in FieldPlaces :
        LET alert == InputAlerts[PosOf(attempts[p[1]].src[p[2]])]
        IN  /\ "instance" \in DOMAIN alert.labels
            /\ alert.labels["instance"] = "localhost"
            /\ "exported_instance" \notin DOMAIN alert.labels

====
